---- MODULE Spec2Model ----
(***************************************************************************)
(* Model of datasets/videodataset_hdf5.py: the HDF5 frame-archive reader   *)
(* (video_loader), the annotation indexer (get_class_labels,               *)
(* get_video_ids_and_annotations, make_dataset), the batch collator        *)
(* (collate_fn) and the VideoDataset class (loading,                       *)
(* temporal_sliding_window, __getitem__).                                  *)
(*                                                                         *)
(* Python objects that are shared by reference (the sample dicts of        *)
(* self.data) live in `heap`; self.data and the targets handed out by      *)
(* __getitem__ hold object ids into it.                                    *)
(***************************************************************************)
EXTENDS Integers, Sequences, FiniteSets, TLC

VARIABLES
    \* ---- video_loader, one call, statement by statement
    pc,             \* position inside video_loader
    f_open,         \* is the h5py.File handle `f` open
    video_len,      \* number of frame slots stored under f['video']
    frame_indices,  \* the request
    pos,            \* number of requested indices already consumed by the for loop
    video,          \* the list `video` (decoded frames, by slot number)
    outcome,        \* "running" | "returned" | "raised"
    staleReadOk,    \* what a read through a dataset object does once its
                    \* file is closed depends on the h5py build: TRUE if it
                    \* is still served, FALSE if it raises
    \* ---- make_dataset
    labels,         \* data['labels']
    database,       \* data['database'] in file order
    subset,         \* the requested subset
    built,          \* result of the construction
    \* ---- VideoDataset
    heap,           \* sample dicts by object id
    data,           \* self.data: list of object ids
    archive_len,    \* frame slots of every archive on disk
    temporal_transform,  \* is self.temporal_transform set
    target_transform,    \* "None" | "ClassLabel" | "Segment"
    returned,       \* what the __getitem__ calls so far handed to the caller
    last_call,      \* the last method call with its arguments
    \* ---- collate_fn
    batch,          \* argument of collate_fn
    collated        \* its result

loaderVars  == <<pc, f_open, video_len, frame_indices, pos, video, outcome, staleReadOk>>
buildVars   == <<labels, database, subset, built>>
datasetVars == <<heap, data, archive_len, temporal_transform, target_transform,
                 returned, last_call>>
collateVars == <<batch, collated>>
vars == <<loaderVars, buildVars, datasetVars, collateVars>>

----------------------------------------------------------------------------
\* Bounds
MaxReq      == 3    \* longest request handed to video_loader
MaxSlot     == 3    \* largest frame slot number requested / archive length
MaxVideos   == 5    \* entries of data['database']
MaxLabels   == 3    \* entries of data['labels']

ClassNames == {"a", "b"}
NoLabel    == "<none>"      \* the annotation has no 'label' key
Subsets    == {"training", "validation"}

----------------------------------------------------------------------------
\* Generic helpers
Range(s) == {s[i] : i \in DOMAIN s}

SeqsUpTo(S, n) == UNION {[1..k -> S] : k \in 0..n}

\* Python range(a, b)
PyRange(a, b) == [k \in 1..(IF b > a THEN b - a ELSE 0) |-> a + k - 1]

Min(a, b) == IF a < b THEN a ELSE b

\* d[key] = value on a Python dict
Put(d, key, value) == [x \in (DOMAIN d) \cup {key} |-> IF x = key THEN value ELSE d[x]]

EmptyDict == [x \in {} |-> 0]

----------------------------------------------------------------------------
\* Values the variables of the other components keep while one component runs
IdleLoader ==
    /\ pc = "idle" /\ f_open = FALSE /\ video_len = 0 /\ frame_indices = <<>>
    /\ pos = 0 /\ video = <<>> /\ outcome = "idle" /\ staleReadOk = FALSE
IdleBuild ==
    /\ labels = <<>> /\ database = <<>> /\ subset = "training"
    /\ built = [status |-> "idle"]
IdleDataset ==
    /\ heap = <<>> /\ data = <<>> /\ archive_len = 0
    /\ temporal_transform = FALSE /\ target_transform = "None"
    /\ returned = <<>> /\ last_call = [op |-> "idle"]
IdleCollate ==
    /\ batch = <<>> /\ collated = [status |-> "idle"]

----------------------------------------------------------------------------
\* video_loader (lines 13-24), statement by statement

\* with h5py.File(video_file_path, 'r') as f:
OpenArchive ==
    /\ pc = "open"
    /\ f_open' = TRUE
    /\ pc' = "bind"
    /\ UNCHANGED <<video_len, frame_indices, pos, video, outcome, staleReadOk>>
    /\ UNCHANGED <<buildVars, datasetVars, collateVars>>

\* video_data = f['video']
BindVideoData ==
    /\ pc = "bind"
    /\ pc' = "exit_with"
    /\ UNCHANGED <<f_open, video_len, frame_indices, pos, video, outcome, staleReadOk>>
    /\ UNCHANGED <<buildVars, datasetVars, collateVars>>

\* the with block ends after its only statement: f is closed
CloseArchive ==
    /\ pc = "exit_with"
    /\ f_open' = FALSE
    /\ pc' = "loop"
    /\ UNCHANGED <<video_len, frame_indices, pos, video, outcome, staleReadOk>>
    /\ UNCHANGED <<buildVars, datasetVars, collateVars>>

\* can len(video_data) / video_data[i] be evaluated now
CanRead == f_open \/ staleReadOk

\* one iteration of `for i in frame_indices`, or the final `return video`
LoopStep ==
    /\ pc = "loop"
    /\ IF pos = Len(frame_indices)
         THEN /\ pc' = "done" /\ outcome' = "returned"
              /\ UNCHANGED <<pos, video>>
         ELSE IF ~CanRead
                THEN /\ pc' = "done" /\ outcome' = "raised"
                     /\ UNCHANGED <<pos, video>>
                ELSE IF frame_indices[pos + 1] < video_len
                       THEN /\ video' = Append(video, frame_indices[pos + 1])
                            /\ pos' = pos + 1
                            /\ UNCHANGED <<pc, outcome>>
                       ELSE /\ pc' = "done" /\ outcome' = "returned"
                            /\ UNCHANGED <<pos, video>>
    /\ UNCHANGED <<f_open, video_len, frame_indices, staleReadOk>>
    /\ UNCHANGED <<buildVars, datasetVars, collateVars>>

InitLoader ==
    /\ pc = "open" /\ f_open = FALSE /\ outcome = "running"
    /\ pos = 0 /\ video = <<>>
    /\ video_len \in 0..MaxSlot
    /\ frame_indices \in SeqsUpTo(0..MaxSlot, MaxReq)
    /\ staleReadOk \in BOOLEAN
    /\ IdleBuild /\ IdleDataset /\ IdleCollate

NextLoader ==
    \/ OpenArchive
    \/ BindVideoData
    \/ CloseArchive
    \/ LoopStep

SpecLoader == InitLoader /\ [][NextLoader]_vars

\* video_loader with the bounds test of line 19 off by one (i <= len)
RECURSIVE video_loader_loop_off_by_one(_, _, _, _)
video_loader_loop_off_by_one(len, indices, p, acc) ==
    IF p = Len(indices) THEN [status |-> "returned", video |-> acc]
    ELSE IF ~staleReadOk THEN [status |-> "raised", video |-> acc]
    ELSE IF indices[p + 1] <= len
           THEN video_loader_loop_off_by_one(len, indices, p + 1,
                                             Append(acc, indices[p + 1]))
           ELSE [status |-> "returned", video |-> acc]

\* The whole call as a function: [status, video]
RECURSIVE video_loader_loop(_, _, _, _)
video_loader_loop(len, indices, p, acc) ==
    IF p = Len(indices) THEN [status |-> "returned", video |-> acc]
    ELSE IF ~staleReadOk THEN [status |-> "raised", video |-> acc]
    ELSE IF indices[p + 1] < len
           THEN video_loader_loop(len, indices, p + 1, Append(acc, indices[p + 1]))
           ELSE [status |-> "returned", video |-> acc]

video_loader(len, indices) == video_loader_loop(len, indices, 0, <<>>)

----------------------------------------------------------------------------
\* get_class_labels (lines 27-33)
RECURSIVE get_class_labels_loop(_, _, _)
get_class_labels_loop(ls, index, class_labels_map) ==
    IF index = Len(ls) THEN class_labels_map
    ELSE get_class_labels_loop(ls, index + 1,
                               Put(class_labels_map, ls[index + 1], index))

get_class_labels(ls) == get_class_labels_loop(ls, 0, EmptyDict)

\* lines 53-55: idx_to_class[label] = name for every item of class_to_idx
RECURSIVE invert_loop(_, _, _)
invert_loop(class_to_idx, names, idx_to_class) ==
    IF names = {} THEN idx_to_class
    ELSE LET name == CHOOSE n \in names : TRUE
         IN  invert_loop(class_to_idx, names \ {name},
                         Put(idx_to_class, class_to_idx[name], name))

make_idx_to_class(class_to_idx) == invert_loop(class_to_idx, DOMAIN class_to_idx, EmptyDict)

\* get_video_ids_and_annotations (lines 36-46): positions of the database
\* entries of the subset, in file order
RECURSIVE get_video_ids_and_annotations_loop(_, _, _, _)
get_video_ids_and_annotations_loop(db, sub, k, video_ids) ==
    IF k > Len(db) THEN video_ids
    ELSE get_video_ids_and_annotations_loop(db, sub, k + 1,
            IF db[k].subset = sub THEN Append(video_ids, k) ELSE video_ids)

get_video_ids_and_annotations(db, sub) ==
    get_video_ids_and_annotations_loop(db, sub, 1, <<>>)

\* the progress report of line 60: i % (n_videos // 5) divides by zero
\* when n_videos < 5
ProgressRaises(i, n_videos) == (n_videos \div 5) = 0

\* line 75 testing the start bound instead of the end bound
IsDegenerate_start_bound(segment) == segment[1] = 1

\* segments dropped by line 75
IsDegenerate(segment) == segment[2] = 1

\* the dict of lines 79-85
Sample(v, video_id, label_id) ==
    [video         |-> <<(IF v.label = NoLabel THEN "test" ELSE v.label), video_id>>,
     segment       |-> v.segment,
     frame_indices |-> PyRange(v.segment[1], v.segment[2]),
     video_id      |-> video_id,
     label         |-> label_id]

\* the loop of lines 59-86; i counts from 0 as in the source
RECURSIVE make_dataset_loop(_, _, _, _, _)
make_dataset_loop(db, video_ids, class_to_idx, i, dataset) ==
    IF i = Len(video_ids) THEN [status |-> "ok", dataset |-> dataset]
    ELSE LET v == db[video_ids[i + 1]]
             rest(ds) == make_dataset_loop(db, video_ids, class_to_idx, i + 1, ds)
         IN  IF ProgressRaises(i, Len(video_ids))
               THEN [status |-> "ZeroDivisionError", dataset |-> dataset]
             ELSE IF v.label # NoLabel /\ v.label \notin DOMAIN class_to_idx
               THEN [status |-> "KeyError", dataset |-> dataset]
             ELSE IF ~v.exists THEN rest(dataset)
             ELSE IF IsDegenerate(v.segment) THEN rest(dataset)
             ELSE rest(Append(dataset,
                       Sample(v, video_ids[i + 1],
                              IF v.label = NoLabel THEN -1 ELSE class_to_idx[v.label])))

\* make_dataset (lines 49-88)
make_dataset(ls, db, sub) ==
    LET video_ids    == get_video_ids_and_annotations(db, sub)
        class_to_idx == get_class_labels(ls)
        idx_to_class == make_idx_to_class(class_to_idx)
        loop         == make_dataset_loop(db, video_ids, class_to_idx, 0, <<>>)
    IN  [status       |-> loop.status,
         dataset      |-> loop.dataset,
         class_to_idx |-> class_to_idx,
         idx_to_class |-> idx_to_class]

\* Database entries the build is run on: [subset, label, exists, segment];
\* `exists` says whether root/<label>/<id>.hdf5 is on disk.
VideoKinds ==
    { [subset |-> "training",   label |-> "a",     exists |-> TRUE,  segment |-> <<0, 3>>],
      [subset |-> "training",   label |-> "b",     exists |-> FALSE, segment |-> <<0, 3>>],
      [subset |-> "training",   label |-> "b",     exists |-> TRUE,  segment |-> <<0, 1>>],
      [subset |-> "training",   label |-> NoLabel, exists |-> TRUE,  segment |-> <<1, 2>>],
      [subset |-> "training",   label |-> "a",     exists |-> TRUE,  segment |-> <<2, 2>>],
      [subset |-> "validation", label |-> "a",     exists |-> TRUE,  segment |-> <<1, 4>>] }

Vocabularies == SeqsUpTo(ClassNames, MaxLabels)

InitBuild ==
    /\ labels \in Vocabularies
    /\ database \in SeqsUpTo(VideoKinds, MaxVideos)
    /\ subset = "training"
    /\ built = [status |-> "idle"]
    /\ IdleLoader /\ IdleDataset /\ IdleCollate

\* VideoDataset.__init__ (lines 118-119)
Construct ==
    /\ built.status = "idle"
    /\ built' = make_dataset(labels, database, subset)
    /\ UNCHANGED <<labels, database, subset>>
    /\ UNCHANGED <<loaderVars, datasetVars, collateVars>>

NextBuild == Construct

SpecBuild == InitBuild /\ [][NextBuild]_vars

----------------------------------------------------------------------------
\* VideoDataset

MaxGets     == 1    \* __getitem__ calls whose results the caller still holds
MaxHeap     == 6    \* sample dicts ever allocated
MaxDuration == 2    \* sample_duration of temporal_sliding_window
MaxStride   == 2    \* sample_stride of temporal_sliding_window
MaxWindows  == 2    \* windows a temporal transform fans one sample out to
MaxWindowLen == 2   \* frames of one such window
MaxArchive  == 4    \* frame slots of an archive on disk, at most
MinArchive  == MaxArchive - 1    \* and at least

TargetTransforms == {"None", "ClassLabel", "Segment"}

\* VideoDataset.loading (lines 126-133).  The spatial transform maps the
\* frames one by one and keeps their number; torch.stack refuses an empty list.
loading(path, indices) ==
    LET clip == video_loader(archive_len, indices)
    IN  IF clip.status = "raised" THEN [status |-> "raised", clip |-> <<>>]
        ELSE IF clip.video = <<>> THEN [status |-> "raised", clip |-> <<>>]
        ELSE [status |-> "ok", clip |-> clip.video]

\* What __getitem__ puts into its result for the dict `ref` (lines 165-167,
\* 173-176): the dict itself when no target transform is set, else the value
\* the transform extracts from it.
ApplyTarget(h, ref) ==
    IF target_transform = "None"
      THEN [kind |-> "ref", ref |-> ref, label |-> 0, segment |-> <<>>]
    ELSE IF target_transform = "ClassLabel"
      THEN [kind |-> "label", ref |-> 0, label |-> h[ref].label, segment |-> <<>>]
    ELSE [kind |-> "segment", ref |-> 0, label |-> 0, segment |-> h[ref].segment]

\* lines 161-164: current_target = target; current_target['segment'] = [...]
current_target(h, ref, one_frame_indices) ==
    [h EXCEPT ![ref].segment =
        <<one_frame_indices[1], one_frame_indices[Len(one_frame_indices)] + 1>>]

\* the loop of lines 158-167
RECURSIVE getitem_multi_loop(_, _, _, _, _, _)
getitem_multi_loop(h, ref, windows, k, clips, targets) ==
    IF k > Len(windows)
      THEN [status |-> "ok", heap |-> h, clips |-> clips, targets |-> targets]
    ELSE LET c == loading(h[ref].video, windows[k])
         IN  IF c.status = "raised"
               THEN [status |-> "raised", heap |-> h, clips |-> <<>>, targets |-> <<>>]
             ELSE LET h2 == current_target(h, ref, windows[k])
                  IN  getitem_multi_loop(h2, ref, windows, k + 1,
                                         Append(clips, c.clip),
                                         Append(targets, ApplyTarget(h2, ref)))

\* lines 170-176
getitem_single(h, ref, indices) ==
    LET c == loading(h[ref].video, indices)
    IN  IF c.status = "raised"
          THEN [status |-> "raised", heap |-> h, clips |-> <<>>, targets |-> <<>>]
        ELSE [status |-> "ok", heap |-> h, clips |-> <<c.clip>>,
              targets |-> <<ApplyTarget(h, ref)>>]

\* VideoDataset.__getitem__ (lines 147-176).  tt is what the temporal
\* transform answered: [nested, seqs]; a flat answer is seqs[1].
getitem(h, ref, tt) ==
    IF ~tt.nested /\ tt.seqs[1] = <<>>
      THEN [status |-> "raised", heap |-> h, clips |-> <<>>, targets |-> <<>>]
    ELSE IF tt.nested
      THEN getitem_multi_loop(h, ref, tt.seqs, 1, <<>>, <<>>)
    ELSE getitem_single(h, ref, tt.seqs[1])

\* The first n consecutive chunks of w entries of fi (the last one may be
\* shorter), as a sliding-window temporal transform cuts them
Chunks(fi, w, n) ==
    [k \in 1..Min(n, (Len(fi) + w - 1) \div w) |->
        SubSeq(fi, (k - 1) * w + 1, Min(k * w, Len(fi)))]

\* Answers of a temporal transform to the frame indices fi: a flat selection
\* (all of them, or a crop of the leading ones), or a list of windows
TemporalAnswers(fi) ==
    IF fi = <<>> THEN {[nested |-> FALSE, seqs |-> <<fi>>]}
    ELSE {[nested |-> FALSE, seqs |-> <<fi>>]}
         \cup {[nested |-> FALSE, seqs |-> <<SubSeq(fi, 1, Min(w, Len(fi)))>>] :
                  w \in 1..MaxWindowLen}
         \cup {[nested |-> TRUE, seqs |-> Chunks(fi, w, n)] :
                  w \in 1..MaxWindowLen, n \in 1..MaxWindows}

\* lines 151-153
FrameIndicesFor(h, ref) ==
    IF temporal_transform THEN TemporalAnswers(h[ref].frame_indices)
    ELSE {[nested |-> FALSE, seqs |-> <<h[ref].frame_indices>>]}

GetItem ==
    /\ Len(returned) < MaxGets
    /\ \E index \in 1..Len(data) :
         \E tt \in FrameIndicesFor(heap, data[index]) :
            LET r == getitem(heap, data[index], tt)
            IN  /\ heap' = r.heap
                /\ returned' = IF r.status = "ok"
                                 THEN Append(returned,
                                        [ref |-> data[index], nested |-> tt.nested,
                                         seqs |-> tt.seqs, clips |-> r.clips,
                                         targets |-> r.targets])
                                 ELSE returned
                /\ last_call' = [op |-> "getitem", status |-> r.status,
                                 ref |-> data[index]]
    /\ UNCHANGED <<data, archive_len, temporal_transform, target_transform>>
    /\ UNCHANGED <<loaderVars, buildVars, collateVars>>

\* the inner loop of lines 139-144 without the min() of line 141
RECURSIVE window_loop_unclamped(_, _, _, _, _)
window_loop_unclamped(x, t, t_end, sample_duration, sample_stride) ==
    IF t >= t_end THEN <<>>
    ELSE LET segment == <<t, t + sample_duration>>
         IN  <<[x EXCEPT !.segment = segment,
                         !.frame_indices = PyRange(segment[1], segment[2])]>>
             \o window_loop_unclamped(x, t + sample_stride, t_end,
                                      sample_duration, sample_stride)

\* the inner loop of lines 139-144: the copies of x made for
\* t = t_cur, t_cur + sample_stride, ... below t_end
RECURSIVE window_loop(_, _, _, _, _)
window_loop(x, t, t_end, sample_duration, sample_stride) ==
    IF t >= t_end THEN <<>>
    ELSE LET segment == <<t, Min(t + sample_duration, t_end)>>
         IN  <<[x EXCEPT !.segment = segment,
                         !.frame_indices = PyRange(segment[1], segment[2])]>>
             \o window_loop(x, t + sample_stride, t_end, sample_duration, sample_stride)

\* VideoDataset.temporal_sliding_window (lines 135-145): the new sample dicts
RECURSIVE temporal_sliding_window(_, _, _, _, _)
temporal_sliding_window(h, d, k, sample_duration, sample_stride) ==
    IF k > Len(d) THEN <<>>
    ELSE LET x == h[d[k]]
         IN  window_loop(x, x.segment[1], x.segment[2], sample_duration, sample_stride)
             \o temporal_sliding_window(h, d, k + 1, sample_duration, sample_stride)

TemporalSlidingWindow ==
    \E sample_duration \in 1..MaxDuration, sample_stride \in 1..MaxStride :
        LET new == temporal_sliding_window(heap, data, 1, sample_duration, sample_stride)
        IN  /\ Len(heap) + Len(new) <= MaxHeap
            /\ heap' = heap \o new
            /\ data' = [k \in 1..Len(new) |-> Len(heap) + k]
            /\ last_call' = [op |-> "temporal_sliding_window",
                             sample_duration |-> sample_duration,
                             sample_stride |-> sample_stride]
            /\ UNCHANGED <<archive_len, temporal_transform, target_transform, returned>>
            /\ UNCHANGED <<loaderVars, buildVars, collateVars>>

\* Segments of the first of the two videos whose archives are on disk
DataSegments == {<<0, 4>>, <<1, 3>>, <<2, 2>>}

\* The annotation files the dataset is constructed from: five videos of the
\* subset, two of them with an archive on disk
DatasetDatabase(s1) ==
    << [subset |-> "training", label |-> "a", exists |-> TRUE,  segment |-> s1],
       [subset |-> "training", label |-> "b", exists |-> FALSE, segment |-> <<0, 4>>],
       [subset |-> "training", label |-> "b", exists |-> TRUE,  segment |-> <<1, 3>>],
       [subset |-> "training", label |-> "a", exists |-> TRUE,  segment |-> <<0, 1>>],
       [subset |-> "training", label |-> "a", exists |-> FALSE, segment |-> <<0, 4>>] >>

\* The state after VideoDataset.__init__ (lines 111-124)
InitDataset ==
    /\ \E s1 \in DataSegments :
          LET made == make_dataset(<<"a", "b">>, DatasetDatabase(s1), "training")
          IN  /\ heap = made.dataset
              /\ data = [k \in 1..Len(made.dataset) |-> k]
    /\ archive_len \in MinArchive..MaxArchive
    /\ temporal_transform \in BOOLEAN
    /\ target_transform \in TargetTransforms
    /\ returned = <<>>
    /\ last_call = [op |-> "init"]
    /\ staleReadOk \in BOOLEAN
    /\ pc = "idle" /\ f_open = FALSE /\ video_len = 0 /\ frame_indices = <<>>
    /\ pos = 0 /\ video = <<>> /\ outcome = "idle"
    /\ IdleBuild /\ IdleCollate

NextDataset ==
    \/ GetItem
    \/ TemporalSlidingWindow

SpecDataset == InitDataset /\ [][NextDataset]_vars

----------------------------------------------------------------------------
\* collate_fn

MaxBatch == 2   \* samples of one batch
MaxInner == 2   \* clips of one multi-window sample

\* Shapes of the clip tensors of a batch
ClipShapes == {1, 2}
\* A target: a Python int, or something else (a dict)
Targets == {[int |-> TRUE, v |-> 0], [int |-> TRUE, v |-> 1], [int |-> FALSE, v |-> 0]}

\* The targets of one element of the batch, as __getitem__ returns them: one
\* target, or a non-empty list of targets
TargetLists(multi) ==
    UNION {[1..n -> Targets] : n \in 1..(IF multi THEN MaxInner ELSE 1)}

\* A batch: its s-th element holds as many clips as targets; the clips of one
\* element share a shape, and every clip is a tensor of its own
BatchOf(multi, shapes, targets) ==
    [s \in DOMAIN targets |->
        [multi   |-> multi,
         clips   |-> [j \in DOMAIN targets[s] |-> [shape |-> shapes[s], id |-> <<s, j>>]],
         targets |-> targets[s]]]

\* the flattening of lines 95-101 taking the samples last to first
RECURSIVE Flatten_reversed(_)
Flatten_reversed(lists) ==
    IF lists = <<>> THEN <<>> ELSE Flatten_reversed(Tail(lists)) \o Head(lists)

\* [x for xs in lists for x in xs] (lines 95-101)
RECURSIVE Flatten(_)
Flatten(lists) ==
    IF lists = <<>> THEN <<>> ELSE Head(lists) \o Flatten(Tail(lists))

\* torch default_collate on tensors: stacks equal shapes, fails otherwise
default_collate_clips(clips) ==
    IF \A i, j \in DOMAIN clips : clips[i].shape = clips[j].shape
      THEN [status |-> "ok", kind |-> "tensor", items |-> clips]
      ELSE [status |-> "raised", kind |-> "none", items |-> <<>>]

\* torch default_collate on the targets, taken when the first one is an int
default_collate_targets(targets) ==
    IF \A i \in DOMAIN targets : targets[i].int
      THEN [status |-> "ok", kind |-> "tensor", items |-> targets]
      ELSE [status |-> "raised", kind |-> "none", items |-> <<>>]

\* collate_fn (lines 91-106)
collate_fn(b) ==
    LET zipped_clips   == [k \in DOMAIN b |-> b[k].clips]
        zipped_targets == [k \in DOMAIN b |-> b[k].targets]
        batch_clips    == IF b[1].multi THEN Flatten(zipped_clips)
                          ELSE [k \in DOMAIN b |-> b[k].clips[1]]
        batch_targets  == IF b[1].multi THEN Flatten(zipped_targets)
                          ELSE [k \in DOMAIN b |-> b[k].targets[1]]
        clips          == default_collate_clips(batch_clips)
        targets        == IF batch_targets[1].int
                            THEN default_collate_targets(batch_targets)
                            ELSE [status |-> "ok", kind |-> "list", items |-> batch_targets]
    IN  [status  |-> IF clips.status = "ok" /\ targets.status = "ok"
                       THEN "ok" ELSE "raised",
         clips   |-> clips,
         targets |-> targets]

InitCollate ==
    /\ \E multi \in BOOLEAN, n \in 1..MaxBatch :
          \E shapes \in [1..n -> ClipShapes], targets \in [1..n -> TargetLists(multi)] :
             batch = BatchOf(multi, shapes, targets)
    /\ collated = [status |-> "idle"]
    /\ IdleLoader /\ IdleBuild /\ IdleDataset

Collate ==
    /\ collated.status = "idle"
    /\ collated' = collate_fn(batch)
    /\ UNCHANGED batch
    /\ UNCHANGED <<loaderVars, buildVars, datasetVars>>

NextCollate == Collate

SpecCollate == InitCollate /\ [][NextCollate]_vars

----------------------------------------------------------------------------
\* Properties of video_loader (SpecLoader)

\* The leading requested indices up to the first one at or beyond len
LongestPrefix(indices, len) ==
    LET n == CHOOSE m \in 0..Len(indices) :
                /\ \A k \in 1..m : indices[k] < len
                /\ m < Len(indices) => indices[m + 1] >= len
    IN  SubSeq(indices, 1, n)

\* C4: load processes the request in order and returns, without raising, the
\* frames of the longest prefix of the request whose indices are all below
\* the archive length.
C4_LoadReturnsLongestPrefix ==
    pc = "done" =>
        /\ outcome = "returned"
        /\ video = LongestPrefix(frame_indices, video_len)

\* the next statement evaluates f['video'], len(video_data) or video_data[i]
UsesCollection ==
    \/ pc = "bind"
    \/ pc = "loop" /\ pos < Len(frame_indices)

\* C10: the archive handle is open whenever the frame collection is used
\* (the length query and every slot fetch), and it is closed once load has
\* finished.
C10_HandleOpenWhileUsed ==
    /\ UsesCollection => f_open
    /\ pc = "done" => ~f_open

----------------------------------------------------------------------------
\* Properties of make_dataset (SpecBuild)

FirstOccurrence(ls, name) == CHOOSE k \in 1..Len(ls) :
                                /\ ls[k] = name
                                /\ \A j \in 1..(k - 1) : ls[j] # name

\* C7: the class mapping is a bijection between the K distinct class names
\* and 0..K-1, numbered in order of first occurrence in the vocabulary, and
\* idx_to_class is its inverse.
C7_ClassMappingDenseBijection ==
    built.status = "ok" =>
        LET names == Range(labels)
            K     == Cardinality(names)
        IN  /\ DOMAIN built.class_to_idx = names
            /\ \A n \in names :
                  built.class_to_idx[n] =
                     Cardinality({m \in names :
                        FirstOccurrence(labels, m) < FirstOccurrence(labels, n)})
            /\ DOMAIN built.idx_to_class = 0..(K - 1)
            /\ \A n \in names : built.idx_to_class[built.class_to_idx[n]] = n

\* C8 as stated: every retained descriptor has a segment [a,b) with b - a > 1.
C8_NoShortSegmentRetained ==
    built.status = "ok" =>
        \A k \in DOMAIN built.dataset :
            built.dataset[k].segment[2] - built.dataset[k].segment[1] > 1

\* C8 amended: no retained descriptor has a segment whose end bound is 1, and
\* every retained descriptor's frame_indices is the integer range of its
\* segment (which is empty when b <= a).
C8_NoEndBoundOneRetained ==
    built.status = "ok" =>
        \A k \in DOMAIN built.dataset :
            LET d == built.dataset[k]
            IN  /\ d.segment[2] # 1
                /\ Len(d.frame_indices) =
                      (IF d.segment[2] > d.segment[1]
                         THEN d.segment[2] - d.segment[1] ELSE 0)

\* the build succeeded on a database holding an on-disk video of the subset
\* whose segment ends at 1, and kept some descriptor
C8_Witness ==
    /\ built.status = "ok"
    /\ \E k \in DOMAIN database :
          /\ database[k].subset = subset /\ database[k].exists
          /\ database[k].segment[2] = 1
    /\ built.dataset # <<>>

\* every label used by the database is in the vocabulary
WellFormedAnnotations ==
    \A k \in DOMAIN database :
        database[k].label = NoLabel \/ database[k].label \in Range(labels)

\* the entries the build is documented to keep, in file order
RECURSIVE Retained(_, _)
Retained(db, k) ==
    IF k > Len(db) THEN <<>>
    ELSE (IF db[k].subset = subset /\ db[k].exists /\ db[k].segment[2] # 1
            THEN <<k>> ELSE <<>>) \o Retained(db, k + 1)

\* C9: the build completes without raising whatever the number of videos of
\* the subset, and returns the retained samples in annotation order.
C9_BuildNeverRaises ==
    (built.status # "idle" /\ WellFormedAnnotations) =>
        /\ built.status = "ok"
        /\ [k \in DOMAIN built.dataset |-> built.dataset[k].video_id]
              = Retained(database, 1)

----------------------------------------------------------------------------
\* Properties of VideoDataset (SpecDataset)

\* what the caller reads in a returned target
Content(h, t) == IF t.kind = "ref" THEN h[t.ref] ELSE t

\* the result of the call that has just returned
JustReturned == last_call.op = "getitem" /\ last_call.status = "ok"
LastResult   == returned[Len(returned)]

\* C1: a multi-window get over n index sequences returns n clips and n
\* targets, and the k-th target's segment is
\* [first index of the k-th sequence, last index of the k-th sequence + 1],
\* with or without a target transform.
C1_EachTargetHasItsWindow ==
    (JustReturned /\ LastResult.nested) =>
        LET r == LastResult
        IN  /\ Len(r.clips) = Len(r.seqs)
            /\ Len(r.targets) = Len(r.seqs)
            /\ target_transform # "ClassLabel" =>
                  \A k \in DOMAIN r.targets :
                     Content(heap, r.targets[k]).segment =
                        <<r.seqs[k][1], r.seqs[k][Len(r.seqs[k])] + 1>>

\* C2: a target handed out by get is a fresh copy: no later call changes what
\* an earlier returned target contains, and a get leaves the descriptors of
\* the dataset's list as they were.
C2_ReturnedTargetsAreCopies ==
    [][ /\ \A k \in DOMAIN returned : \A j \in DOMAIN returned[k].targets :
              Content(heap', returned[k].targets[j])
                 = Content(heap, returned[k].targets[j])
        /\ last_call'.op = "getitem" =>
              \A i \in DOMAIN data : heap'[data[i]] = heap[data[i]] ]_vars

\* number of windows of a segment [t0, t1) at the given stride
NumWindows(t0, t1, stride) ==
    IF t1 > t0 THEN (t1 - t0 + stride - 1) \div stride ELSE 0

\* number of windows of the samples before the i-th
RECURSIVE WindowsBefore(_, _, _, _)
WindowsBefore(h, d, i, stride) ==
    IF i = 1 THEN 0
    ELSE WindowsBefore(h, d, i - 1, stride)
         + NumWindows(h[d[i - 1]].segment[1], h[d[i - 1]].segment[2], stride)

\* the j-th window of sample x
ExpectedWindow(x, j, duration, stride) ==
    LET s == x.segment[1] + (j - 1) * stride
        e == Min(s + duration, x.segment[2])
    IN  [video         |-> x.video,
         segment       |-> <<s, e>>,
         frame_indices |-> [m \in 1..(e - s) |-> s + m - 1],
         video_id      |-> x.video_id,
         label         |-> x.label]

\* C3: apply_sliding_window(duration, stride), stride >= 1, replaces the
\* sample list by, for each sample with segment [t0, t1) in list order, one
\* descriptor per window start s = t0, t0 + stride, ... below t1, with segment
\* (s, min(s + duration, t1)), frame_indices the range of that segment and
\* the other fields those of the original; [0,10) with duration 4 and stride
\* 4 gives [0,4), [4,8), [8,10).
C3_SlidingWindowExpansion ==
    [][ last_call'.op = "temporal_sliding_window" =>
          LET duration == last_call'.sample_duration
              stride   == last_call'.sample_stride
          IN  /\ Len(data') = WindowsBefore(heap, data, Len(data) + 1, stride)
              /\ \A i \in DOMAIN data :
                   LET x == heap[data[i]]
                   IN  \A j \in 1..NumWindows(x.segment[1], x.segment[2], stride) :
                          heap'[data'[WindowsBefore(heap, data, i, stride) + j]]
                             = ExpectedWindow(x, j, duration, stride)
              /\ \A k \in DOMAIN data' : data'[k] \notin DOMAIN heap
              /\ LET x == [video |-> <<"a", 1>>, segment |-> <<0, 10>>,
                           frame_indices |-> PyRange(0, 10), video_id |-> 1,
                           label |-> 0]
                     w == window_loop(x, 0, 10, 4, 4)
                 IN  [k \in DOMAIN w |-> w[k].segment]
                        = << <<0, 4>>, <<4, 8>>, <<8, 10>> >> ]_vars

\* the list has just been expanded and holds a window cut short by the end
\* of its sample, next to full windows
C3_Witness ==
    /\ last_call.op = "temporal_sliding_window"
    /\ Len(data) >= 3
    /\ \E k \in DOMAIN data :
          LET x == heap[data[k]]
          IN  /\ x.segment[1] < x.segment[2]
              /\ x.segment[2] - x.segment[1] < last_call.sample_duration
    /\ \E k \in DOMAIN data :
          LET x == heap[data[k]]
          IN  x.segment[2] - x.segment[1] = last_call.sample_duration

----------------------------------------------------------------------------
\* Properties of collate_fn (SpecCollate)

\* number of inner clips of the samples before the s-th
RECURSIVE InnerBefore(_, _)
InnerBefore(b, s) == IF s = 1 THEN 0 ELSE InnerBefore(b, s - 1) + Len(b[s - 1].clips)

AllClips(b) == {b[s].clips[j] : <<s, j>> \in
                   UNION {{<<s2, j2>> : j2 \in DOMAIN b[s2].clips} : s2 \in DOMAIN b}}
AllTargets(b) == {b[s].targets[j] : <<s, j>> \in
                   UNION {{<<s2, j2>> : j2 \in DOMAIN b[s2].targets} : s2 \in DOMAIN b}}

SameShapes(b) == \A c1, c2 \in AllClips(b) : c1.shape = c2.shape

\* C6: collate on a non-empty batch of multi-window samples whose clips share
\* one shape flattens one level: the leading dimension is the total number of
\* inner clips, clips and targets come in sample order then inner order, the
\* k-th target is the one of the k-th clip; integer targets become one
\* tensor, non-integer targets an ordered unbatched list.
C6_CollateFlattensOneLevel ==
    (collated.status # "idle" /\ batch[1].multi /\ SameShapes(batch)) =>
        LET total    == InnerBefore(batch, Len(batch) + 1)
            allInt   == \A t \in AllTargets(batch) : t.int
            noneInt  == \A t \in AllTargets(batch) : ~t.int
        IN  /\ collated.clips.status = "ok"
            /\ collated.clips.kind = "tensor"
            /\ Len(collated.clips.items) = total
            /\ \A s \in DOMAIN batch : \A j \in DOMAIN batch[s].clips :
                  collated.clips.items[InnerBefore(batch, s) + j] = batch[s].clips[j]
            /\ (allInt \/ noneInt) =>
                  /\ collated.status = "ok"
                  /\ collated.targets.kind = (IF allInt THEN "tensor" ELSE "list")
                  /\ Len(collated.targets.items) = total
                  /\ \A s \in DOMAIN batch : \A j \in DOMAIN batch[s].targets :
                        collated.targets.items[InnerBefore(batch, s) + j]
                           = batch[s].targets[j]

\* two multi-window samples of two clips each were collated into a leading
\* dimension of 4, with different targets inside one sample
C6_Witness ==
    /\ collated.status = "ok"
    /\ Len(batch) = 2 /\ batch[1].multi
    /\ Len(batch[1].clips) = 2 /\ Len(batch[2].clips) = 2
    /\ Len(collated.clips.items) = 4
    /\ batch[1].targets[1] # batch[1].targets[2]
    /\ batch[1].targets # batch[2].targets

====
